---- MODULE Spec2Model ----
(***************************************************************************)
(* Model of app.py, the "Formatador de Dados Pessoais": an uploaded table  *)
(* is read, its headers are mapped to canonical fields by synonym,         *)
(* documents are cleaned and classified, razao_social is rebuilt from the  *)
(* name columns, the fixed-schema table is assembled and de-duplicated by  *)
(* cpf.                                                                    *)
(*                                                                         *)
(* A Python str is a sequence of one-character strings; the float NaN of   *)
(* an empty cell is the value NaN below.                                   *)
(***************************************************************************)
EXTENDS Integers, Sequences, FiniteSets, TLC

VARIABLES
    pc,             \* position in main / process_data
    uploaded_file,  \* what st.file_uploader returned
    df,             \* the DataFrame returned by read_uploaded_file
    mapped_data,    \* dict: canonical field -> column of str
    output_df,      \* the DataFrame built from TARGET_COLUMNS
    assembled,      \* output_df as built, before drop_duplicates
    kept,           \* index labels left by drop_duplicates, before reset_index
    result,         \* what process_data returned to main
    download,       \* the table handed to st.download_button
    errors,         \* messages shown with st.error, in order
    doc,            \* an argument of clean_document (classifier runs)
    classified      \* the pair clean_document returned for doc

vars == <<pc, uploaded_file, df, mapped_data, assembled, output_df, kept, result,
          download, errors, doc, classified>>

-----------------------------------------------------------------------------
(* Bounds *)

MaxRows == 2        \* rows of an uploaded table
MaxRun == 8         \* digits in each of the two digit runs of a document

-----------------------------------------------------------------------------
(* Characters and str methods *)

EmptyStr == << >>

NaN == <<"NaN">>

Whitespace == {" ", "\t", "\n"}

Digit == {"0", "1", "2", "3", "4", "5", "6", "7", "8", "9"}

UpperChars ==
    <<"A","B","C","D","E","F","G","H","I","J","K","L","M","N","O","P","Q",
      "R","S","T","U","V","W","X","Y","Z","Á","Ã","Ç","É","Í","Ó","Õ","Ú">>

LowerChars ==
    <<"a","b","c","d","e","f","g","h","i","j","k","l","m","n","o","p","q",
      "r","s","t","u","v","w","x","y","z","á","ã","ç","é","í","ó","õ","ú">>

AccentedChars ==
    <<"Á","Ã","Ç","É","Í","Ó","Õ","Ú","á","ã","ç","é","í","ó","õ","ú">>

BaseChars ==
    <<"A","A","C","E","I","O","O","U","a","a","c","e","i","o","o","u">>

Translate(c, from, to) ==
    IF \E i \in 1..Len(from) : from[i] = c
    THEN to[CHOOSE i \in 1..Len(from) : from[i] = c]
    ELSE c

lower(s) == [i \in 1..Len(s) |-> Translate(s[i], UpperChars, LowerChars)]

upper(s) == [i \in 1..Len(s) |-> Translate(s[i], LowerChars, UpperChars)]

RECURSIVE lstrip(_)
lstrip(s) ==
    IF s # << >> /\ Head(s) \in Whitespace THEN lstrip(Tail(s)) ELSE s

RECURSIVE rstrip(_)
rstrip(s) ==
    IF s # << >> /\ s[Len(s)] \in Whitespace
    THEN rstrip(SubSeq(s, 1, Len(s) - 1))
    ELSE s

strip(s) == rstrip(lstrip(s))

\* sub in s
contains(s, sub) ==
    \E i \in 1..(Len(s) - Len(sub) + 1) : SubSeq(s, i, i + Len(sub) - 1) = sub

\* str(x) / Series.astype(str): NaN prints as 'nan'
str(x) == IF x = NaN THEN <<"n","a","n">> ELSE x

\* re.sub(r'\s+', ' ', s)
RECURSIVE collapse_whitespace(_)
collapse_whitespace(s) ==
    IF s = << >> THEN << >>
    ELSE IF Head(s) \in Whitespace
         THEN <<" ">> \o collapse_whitespace(lstrip(Tail(s)))
         ELSE <<Head(s)>> \o collapse_whitespace(Tail(s))

\* re.sub(r"\D", "", s)
remove_non_digits(s) == SelectSeq(s, LAMBDA c : c \in Digit)

\* Series.str.contains(r"\s", regex=True)
has_whitespace(s) == \E i \in 1..Len(s) : s[i] \in Whitespace

-----------------------------------------------------------------------------
(* Constants of app.py *)

COLUMN_MAPPINGS ==
    "razao_social" :> <<
        <<"n","o","m","e"," ","e"," ","s","o","b","r","e","n","o","m","e">>,
        <<"n","o","m","e"," ","c","o","m","p","l","e","t","o">>,
        <<"r","a","z","a","o"," ","s","o","c","i","a","l">>,
        <<"r","a","z","ã","o"," ","s","o","c","i","a","l">>,
        <<"c","l","i","e","n","t","e">>,
        <<"e","m","p","r","e","s","a">>,
        <<"c","o","n","t","a","t","o">>,
        <<"r","e","s","p","o","n","s","a","v","e","l">>,
        <<"r","e","s","p","o","n","s","á","v","e","l">>,
        <<"n","o","m","e">>
    >>
 @@ "sobrenome" :> <<
        <<"s","o","b","r","e","n","o","m","e">>,
        <<"u","l","t","i","m","o"," ","n","o","m","e">>,
        <<"ú","l","t","i","m","o"," ","n","o","m","e">>,
        <<"s","o","b","r","e"," ","n","o","m","e">>,
        <<"u","l","t","i","m","o"," ","s","o","b","r","e","n","o","m","e">>,
        <<"a","p","e","l","i","d","o">>
    >>
 @@ "primeiro_nome" :> <<
        <<"p","r","i","m","e","i","r","o"," ","n","o","m","e">>,
        <<"n","o","m","e">>,
        <<"n","o","m","e"," ","d","o"," ","c","l","i","e","n","t","e">>,
        <<"n","o","m","e"," ","p","e","s","s","o","a">>
    >>
 @@ "fantasia" :> <<
        <<"f","a","n","t","a","s","i","a">>,
        <<"n","o","m","e"," ","f","a","n","t","a","s","i","a">>
    >>
 @@ "cpf" :> <<
        <<"c","p","f","/","c","n","p","j">>,
        <<"c","p","f">>,
        <<"c","n","p","j">>,
        <<"d","o","c","u","m","e","n","t","o">>
    >>
 @@ "email" :> <<
        <<"e","m","a","i","l">>,
        <<"e","-","m","a","i","l">>
    >>
 @@ "celular" :> <<
        <<"c","e","l","u","l","a","r">>,
        <<"w","h","a","t","s","a","p","p">>,
        <<"t","e","l","e","f","o","n","e">>,
        <<"t","e","l","e","f","o","n","e"," ","c","e","l","u","l","a","r">>
    >>
 @@ "cep" :> <<
        <<"c","e","p">>,
        <<"c","o","d","i","g","o"," ","p","o","s","t","a","l">>,
        <<"c","ó","d","i","g","o"," ","p","o","s","t","a","l">>
    >>
 @@ "endereco" :> <<
        <<"e","n","d","e","r","e","c","o">>,
        <<"e","n","d","e","r","e","ç","o">>,
        <<"l","o","g","r","a","d","o","u","r","o">>,
        <<"r","u","a">>
    >>
 @@ "numero" :> <<
        <<"n","u","m","e","r","o">>,
        <<"n","ú","m","e","r","o">>,
        <<"n","u","m">>
    >>
 @@ "bairro" :> <<
        <<"b","a","i","r","r","o">>,
        <<"d","i","s","t","r","i","t","o">>
    >>
 @@ "cidade" :> <<
        <<"c","i","d","a","d","e">>,
        <<"m","u","n","i","c","i","p","i","o">>,
        <<"m","u","n","i","c","í","p","i","o">>
    >>
 @@ "uf" :> <<
        <<"u","f">>,
        <<"e","s","t","a","d","o">>,
        <<"u","n","i","d","a","d","e"," ","f","e","d","e","r","a","t","i","v","a">>
    >>
 @@ "observacoes" :> <<
        <<"o","b","s","e","r","v","a","c","o","e","s">>,
        <<"o","b","s","e","r","v","a","ç","õ","e","s">>,
        <<"o","b","s">>,
        <<"o","b","s","e","r","v","a","c","a","o">>,
        <<"o","b","s","e","r","v","a","c","õ","e","s">>
    >>

TARGET_COLUMNS ==
    <<"codigo", "razao_social", "fantasia", "cpf", "tipo_pessoa",
      "email", "celular", "cep", "endereco", "numero", "complemento",
      "bairro", "cidade", "uf", "observacoes">>

NAO_INFORMADO == <<"N","Ã","O"," ","I","N","F","O","R","M","A","D","O">>

SENTINELS == { <<"n","a","n">>, <<"n","o","n","e">>, <<"n","a">>,
               <<"n","/","a">>, << >> }

-----------------------------------------------------------------------------
(* Functions of app.py *)

strip_accents(s) ==
    LET t == IF s = NaN THEN str(s) ELSE s
    IN  [i \in 1..Len(t) |-> Translate(t[i], AccentedChars, BaseChars)]

norm_text(s) == strip(collapse_whitespace(lower(strip_accents(s))))

\* the lambda mapped over the series in clean_str_series
clean_value(x) == IF norm_text(x) \in SENTINELS THEN EmptyStr ELSE strip(x)

clean_str_series(ser) == [i \in 1..Len(ser) |-> clean_value(str(ser[i]))]

\* clean_document measuring the raw text instead of doc_clean
clean_document_raw_length(d) ==
    IF d = NaN \/ strip(str(d)) = EmptyStr
    THEN <<EmptyStr, EmptyStr>>
    ELSE LET doc_clean == remove_non_digits(str(d))
         IN  IF Len(str(d)) = 11 THEN <<doc_clean, <<"F">>>>
             ELSE IF Len(str(d)) = 14 THEN <<doc_clean, <<"J">>>>
             ELSE <<doc_clean, EmptyStr>>

\* clean_document discarding the digits of an unclassified document
clean_document_blanking(d) ==
    IF d = NaN \/ strip(str(d)) = EmptyStr
    THEN <<EmptyStr, EmptyStr>>
    ELSE LET doc_clean == remove_non_digits(str(d))
         IN  IF Len(doc_clean) = 11 THEN <<doc_clean, <<"F">>>>
             ELSE IF Len(doc_clean) = 14 THEN <<doc_clean, <<"J">>>>
             ELSE <<EmptyStr, EmptyStr>>

clean_document(d) ==
    IF d = NaN \/ strip(str(d)) = EmptyStr
    THEN <<EmptyStr, EmptyStr>>
    ELSE LET doc_clean == remove_non_digits(str(d))
         IN  IF Len(doc_clean) = 11 THEN <<doc_clean, <<"F">>>>
             ELSE IF Len(doc_clean) = 14 THEN <<doc_clean, <<"J">>>>
             ELSE <<doc_clean, EmptyStr>>

\* a DataFrame: its column labels and its rows (each aligned with columns)
DataFrame(columns, data) == [is_none |-> FALSE, columns |-> columns, data |-> data]

None == [is_none |-> TRUE, columns |-> << >>, data |-> << >>]

\* df[src_col] for the j-th column label
column(d, j) == [i \in 1..Len(d.data) |-> d.data[i][j]]

\* DataFrame.empty: some axis has length 0
is_empty(d) == Len(d.columns) = 0 \/ Len(d.data) = 0

read_uploaded_file(file) ==
    IF file.readable THEN DataFrame(file.columns, file.data) ELSE None

\* any(name.lower() in norm_text(str(src_col)) for name in possible_names)
header_matches(possible_names, src_col) ==
    LET h == norm_text(str(src_col))
    IN  \E k \in 1..Len(possible_names) : contains(h, lower(possible_names[k]))

\* the inner for loop of map_source_columns: the position of the column it
\* breaks on, 0 when it runs into its else branch
RECURSIVE scan_columns(_, _, _)
scan_columns(possible_names, columns, j) ==
    IF j > Len(columns) THEN 0
    ELSE IF header_matches(possible_names, columns[j]) THEN j
    ELSE scan_columns(possible_names, columns, j + 1)

\* map_source_columns with every header given to at most one field, the
\* fields taken in the order COLUMN_MAPPINGS declares them
FieldOrder ==
    <<"razao_social", "sobrenome", "primeiro_nome", "fantasia", "cpf", "email",
      "celular", "cep", "endereco", "numero", "bairro", "cidade", "uf",
      "observacoes">>

RECURSIVE map_claiming(_, _, _, _)
map_claiming(d, k, claimed, acc) ==
    IF k > Len(FieldOrder) THEN acc
    ELSE LET names == COLUMN_MAPPINGS[FieldOrder[k]]
             free == {j \in 1..Len(d.columns) :
                        j \notin claimed /\ header_matches(names, d.columns[j])}
             j == IF free = {} THEN 0
                  ELSE CHOOSE m \in free : \A o \in free : m <= o
             col == IF j = 0
                    THEN [i \in 1..Len(d.data) |-> EmptyStr]
                    ELSE clean_str_series(column(d, j))
         IN  map_claiming(d, k + 1, claimed \cup {j}, acc @@ (FieldOrder[k] :> col))

map_source_columns_exclusive(d) == map_claiming(d, 1, {}, << >>)

map_source_columns(d) ==
    [target_col \in DOMAIN COLUMN_MAPPINGS |->
        LET j == scan_columns(COLUMN_MAPPINGS[target_col], d.columns, 1)
        IN  IF j = 0
            THEN [i \in 1..Len(d.data) |-> EmptyStr]
            ELSE clean_str_series(column(d, j))]

\* the check of line 104 without its second operand
no_document_column_key_only(mapped) == "cpf" \notin DOMAIN mapped

\* 'cpf' not in mapped_data or mapped_data['cpf'].eq("").all()
no_document_column(mapped) ==
    \/ "cpf" \notin DOMAIN mapped
    \/ \A i \in 1..Len(mapped["cpf"]) : mapped["cpf"][i] = EmptyStr

\* lines 118-123 without the default label of line 124
razao_social_no_default(rs, sn, pn) ==
    LET need_concat == ~has_whitespace(rs) /\ rs # EmptyStr /\ sn # EmptyStr
        rs1 == IF need_concat THEN strip(rs \o <<" ">> \o sn) ELSE rs
    IN  IF rs1 = EmptyStr THEN strip(pn \o <<" ">> \o sn) ELSE rs1

\* lines 118-124 of process_data, for the values of one row
razao_social(rs, sn, pn) ==
    LET need_concat == ~has_whitespace(rs) /\ rs # EmptyStr /\ sn # EmptyStr
        rs1 == IF need_concat THEN strip(rs \o <<" ">> \o sn) ELSE rs
        rs2 == IF rs1 = EmptyStr THEN strip(pn \o <<" ">> \o sn) ELSE rs1
    IN  IF strip(rs2) # EmptyStr THEN rs2 ELSE NAO_INFORMADO

\* .astype(str).str.strip().str.upper().str[:2]
format_uf(x) ==
    LET u == upper(strip(str(x)))
    IN  SubSeq(u, 1, IF Len(u) < 2 THEN Len(u) ELSE 2)

TargetSet == {TARGET_COLUMNS[k] : k \in 1..Len(TARGET_COLUMNS)}

\* build_output clearing the trade name of a row that is not a company or
\* whose trade name repeats razao_social
build_output_clearing_fantasia(mapped, n) ==
    [i \in 1..n |->
        [col \in {TARGET_COLUMNS[k] : k \in 1..Len(TARGET_COLUMNS)} |->
            LET v == IF col \in DOMAIN mapped THEN mapped[col][i] ELSE EmptyStr
            IN  IF col = "uf"
                THEN SubSeq(upper(strip(str(v))), 1,
                            IF Len(upper(strip(str(v)))) < 2
                            THEN Len(upper(strip(str(v)))) ELSE 2)
                ELSE IF col = "fantasia"
                          /\ (mapped["tipo_pessoa"][i] # <<"J">>
                              \/ v = mapped["razao_social"][i])
                THEN EmptyStr
                ELSE v]]

\* pd.DataFrame({col: mapped_data.get(col.lower(), [""] * len(df)) ...})
\* followed by the assignment to output_df['uf']
build_output(mapped, n) ==
    [i \in 1..n |->
        [col \in TargetSet |->
            LET v == IF col \in DOMAIN mapped THEN mapped[col][i] ELSE EmptyStr
            IN  IF col = "uf" THEN format_uf(v) ELSE v]]

\* drop_duplicates with keep='last'
drop_duplicates_keep_last(rows) ==
    LET last(i) == \A j \in (i + 1)..Len(rows) : rows[j]["cpf"] # rows[i]["cpf"]
    IN  SelectSeq([i \in 1..Len(rows) |-> i], last)

\* drop_duplicates with keep=False: every row of a repeated cpf is dropped
drop_duplicates_keep_none(rows) ==
    LET alone(i) == \A j \in 1..Len(rows) : j # i => rows[j]["cpf"] # rows[i]["cpf"]
    IN  SelectSeq([i \in 1..Len(rows) |-> i], alone)

\* drop_duplicates leaving the rows without a cpf out of the grouping
drop_duplicates_skip_empty(rows) ==
    LET first(i) == \/ rows[i]["cpf"] = EmptyStr
                    \/ \A j \in 1..(i - 1) : rows[j]["cpf"] # rows[i]["cpf"]
    IN  SelectSeq([i \in 1..Len(rows) |-> i], first)

\* drop_duplicates(subset=['cpf'], keep='first'): the index labels it keeps
drop_duplicates(rows) ==
    LET first(i) == \A j \in 1..(i - 1) : rows[j]["cpf"] # rows[i]["cpf"]
        idx == [i \in 1..Len(rows) |-> i]
    IN  SelectSeq(idx, first)

\* reset_index(drop=True) on the rows with the kept labels
reset_index(rows, labels) == [k \in 1..Len(labels) |-> rows[labels[k]]]

-----------------------------------------------------------------------------
(* Uploaded files                                                          *)
(*                                                                         *)
(* A file is unreadable (read_uploaded_file catches the exception and      *)
(* returns None) or holds a table: a header row and up to MaxRows rows of  *)
(* cells, each a str or NaN.  The header rows are those of the spreadsheets *)
(* the synonyms of COLUMN_MAPPINGS are written for; with str cells no      *)
(* statement of the try block of process_data raises, so its except branch *)
(* has no action.                                                          *)

H_Nome == <<"N","o","m","e">>

H_CPF == <<"C","P","F">>

H_PrimeiroNome == <<"P","r","i","m","e","i","r","o"," ","N","o","m","e">>

H_Sobrenome == <<"S","o","b","r","e","n","o","m","e">>

H_Documento == <<"D","o","c","u","m","e","n","t","o">>

H_RazaoSocial == <<"R","a","z","ã","o"," ","S","o","c","i","a","l">>

H_CNPJ == <<"C","N","P","J">>

H_Fantasia == <<"F","a","n","t","a","s","i","a">>

H_Cidade == <<"C","i","d","a","d","e">>

H_UF == <<"U","F">>

H_Email == <<"E","-","m","a","i","l">>

CPF_formatted == <<"1","2","3",".","4","5","6",".","7","8","9","-","0","9">>

CPF_digits == <<"1","2","3","4","5","6","7","8","9","0","9">>

CNPJ_formatted ==
    <<"1","2",".","3","4","5",".","6","7","8","/","0","0","0","1","-","9","5">>

\* the cell values a column with the given header may hold
CellValues(header) ==
    CASE header = H_CPF ->
            {CPF_formatted, CPF_digits, <<"a","b","c">>, <<"1","2","3","4">>, NaN}
      [] header = H_Documento -> {CPF_digits, NaN}
      [] header = H_CNPJ -> {CNPJ_formatted, CPF_formatted}
      [] header = H_Nome ->
            {<<"M","a","r","i","a"," ","S","i","l","v","a">>, <<" ">>}
      [] header = H_PrimeiroNome ->
            {<<"A","n","a">>, <<"A","n","a"," ","M","a","r","i","a">>}
      [] header = H_Sobrenome -> {<<"S","o","u","z","a">>, <<"N","/","A">>}
      [] header = H_RazaoSocial -> {<<"A","C","M","E">>, NaN}
      [] header = H_Fantasia -> {<<"A","C","M","E">>, <<"L","o","j","a">>, NaN}
      [] header = H_Cidade -> {<<"L","i","m","a">>, NaN}
      [] header = H_UF -> {<<"S","ã","o"," ","P","a","u","l","o">>, NaN}
      [] OTHER -> {<<"a","@","b">>, NaN}

\* the header rows of the uploaded tables
Layouts ==
    { <<H_Nome, H_CPF>>,
      <<H_PrimeiroNome, H_Sobrenome, H_Documento>>,
      <<H_Sobrenome, H_PrimeiroNome, H_Documento>>,
      <<H_RazaoSocial, H_CNPJ, H_Fantasia>>,
      <<H_Documento, H_Cidade, H_UF>>,
      <<H_Email>>,
      << >> }

RowsOf(columns) ==
    IF columns = << >> THEN { << >> }
    ELSE LET cells == UNION {CellValues(columns[j]) : j \in 1..Len(columns)}
         IN  {r \in [1..Len(columns) -> cells] :
                \A j \in 1..Len(columns) : r[j] \in CellValues(columns[j])}

TablesOf(columns) ==
    UNION {[1..n -> RowsOf(columns)] : n \in 0..MaxRows}

Files ==
    {[readable |-> FALSE, columns |-> << >>, data |-> << >>]}
    \cup UNION {{[readable |-> TRUE, columns |-> columns, data |-> data] :
                    data \in TablesOf(columns)} : columns \in Layouts}

\* arguments of clean_document: None/NaN, or two runs of digits around a
\* separator, inside optional blanks
RECURSIVE digit_run(_)
digit_run(n) ==
    IF n = 0 THEN << >>
    ELSE digit_run(n - 1) \o <<Translate(n % 10, <<0,1,2,3,4,5,6,7,8,9>>,
                                <<"0","1","2","3","4","5","6","7","8","9">>)>>

Separators == {<< >>, <<".">>, <<" ">>, <<"-","a">>}

Documents ==
    {NaN} \cup
    {pad \o digit_run(a) \o sep \o digit_run(b) \o pad :
        pad \in {<< >>, <<" ">>}, a \in 0..MaxRun, b \in 0..MaxRun,
        sep \in Separators}

-----------------------------------------------------------------------------
(* main and process_data *)

NoTable == [is_none |-> TRUE, data |-> << >>]

Table(rows) == [is_none |-> FALSE, data |-> rows]

Init ==
    /\ pc = "main"
    /\ uploaded_file = [readable |-> FALSE, columns |-> << >>, data |-> << >>]
    /\ df = None
    /\ mapped_data = << >>
    /\ assembled = << >>
    /\ output_df = << >>
    /\ kept = << >>
    /\ result = NoTable
    /\ download = NoTable
    /\ errors = << >>
    /\ doc = EmptyStr
    /\ classified = <<EmptyStr, EmptyStr>>

\* main: st.file_uploader returns a file and process_data is called with it
Upload ==
    /\ pc = "main"
    /\ \E file \in Files : uploaded_file' = file
    /\ pc' = "read"
    /\ UNCHANGED <<df, mapped_data, assembled, output_df, kept, result,
                   download, errors, doc, classified>>

\* process_data, lines 95-99
ReadFile ==
    /\ pc = "read"
    /\ df' = read_uploaded_file(uploaded_file)
    /\ IF df'.is_none \/ is_empty(df')
       THEN /\ errors' = errors
                    \o (IF df'.is_none THEN <<"ERRO NA LEITURA">> ELSE << >>)
                    \o <<"Arquivo vazio ou inválido">>
            /\ result' = NoTable
            /\ pc' = "returned"
       ELSE /\ pc' = "map"
            /\ UNCHANGED <<errors, result>>
    /\ UNCHANGED <<uploaded_file, mapped_data, assembled, output_df, kept,
                   download, doc, classified>>

\* process_data, lines 101-106
MapColumns ==
    /\ pc = "map"
    /\ mapped_data' = map_source_columns(df)
    /\ IF no_document_column(mapped_data')
       THEN /\ errors' = Append(errors,
                    "Nenhuma coluna de documento (CPF/CNPJ) encontrada")
            /\ result' = NoTable
            /\ pc' = "returned"
       ELSE /\ pc' = "documents"
            /\ UNCHANGED <<errors, result>>
    /\ UNCHANGED <<uploaded_file, df, assembled, output_df, kept, download,
                   doc, classified>>

\* process_data, lines 110-111
CleanDocuments ==
    /\ pc = "documents"
    /\ LET documents == [i \in 1..Len(mapped_data["cpf"]) |->
                            clean_document(mapped_data["cpf"][i])]
       IN  mapped_data' =
               ("cpf" :> [i \in 1..Len(documents) |-> documents[i][1]])
            @@ ("tipo_pessoa" :> [i \in 1..Len(documents) |-> documents[i][2]])
            @@ mapped_data
    /\ pc' = "razao_social"
    /\ UNCHANGED <<uploaded_file, df, assembled, output_df, kept, result,
                   download, errors, doc, classified>>

\* process_data, lines 114-126
BuildRazaoSocial ==
    /\ pc = "razao_social"
    /\ mapped_data' =
           [mapped_data EXCEPT !["razao_social"] =
               [i \in 1..Len(@) |->
                   razao_social(@[i], mapped_data["sobrenome"][i],
                                mapped_data["primeiro_nome"][i])]]
    /\ pc' = "assemble"
    /\ UNCHANGED <<uploaded_file, df, assembled, output_df, kept, result,
                   download, errors, doc, classified>>

\* process_data, lines 128-133
Assemble ==
    /\ pc = "assemble"
    /\ output_df' = build_output(mapped_data, Len(df.data))
    /\ assembled' = output_df'
    /\ pc' = "dedup"
    /\ UNCHANGED <<uploaded_file, df, mapped_data, kept, result, download,
                   errors, doc, classified>>

\* process_data, lines 135-137
DropDuplicates ==
    /\ pc = "dedup"
    /\ kept' = drop_duplicates(output_df)
    /\ output_df' = reset_index(output_df, kept')
    /\ result' = Table(output_df')
    /\ pc' = "returned"
    /\ UNCHANGED <<uploaded_file, df, mapped_data, assembled, download,
                   errors, doc, classified>>

\* main, lines 160-174
ShowResult ==
    /\ pc = "returned"
    /\ download' = IF result.is_none THEN download ELSE result
    /\ pc' = "end"
    /\ UNCHANGED <<uploaded_file, df, mapped_data, assembled, output_df, kept,
                   result, errors, doc, classified>>

Next ==
    \/ Upload
    \/ ReadFile
    \/ MapColumns
    \/ CleanDocuments
    \/ BuildRazaoSocial
    \/ Assemble
    \/ DropDuplicates
    \/ ShowResult

Spec == Init /\ [][Next]_vars

-----------------------------------------------------------------------------
(* Runs of clean_document on its own *)

InitClassify ==
    /\ pc = "clean_document"
    /\ doc \in Documents
    /\ classified = <<EmptyStr, EmptyStr>>
    /\ uploaded_file = [readable |-> FALSE, columns |-> << >>, data |-> << >>]
    /\ df = None
    /\ mapped_data = << >>
    /\ assembled = << >>
    /\ output_df = << >>
    /\ kept = << >>
    /\ result = NoTable
    /\ download = NoTable
    /\ errors = << >>

Classify ==
    /\ pc = "clean_document"
    /\ classified' = clean_document(doc)
    /\ pc' = "classified"
    /\ UNCHANGED <<uploaded_file, df, mapped_data, assembled, output_df, kept,
                   result, download, errors, doc>>

NextClassify == Classify

SpecClassify == InitClassify /\ [][NextClassify]_vars

-----------------------------------------------------------------------------
(* Properties *)

\* process_data returned a table
Succeeded == ~result.is_none

Rows == 1..Len(assembled)

OutRows == 1..Len(result.data)

NonEmptyCount(row) == Cardinality({col \in TargetSet : row[col] # EmptyStr})

\* the rows of the assembled table that carry the given cpf
Group(cpf) == {i \in Rows : assembled[i]["cpf"] = cpf}

\* the position of the first column with the given header, 0 if absent
ColumnOf(header) ==
    IF \E j \in 1..Len(df.columns) : df.columns[j] = header
    THEN CHOOSE j \in 1..Len(df.columns) : df.columns[j] = header
    ELSE 0

\* the headers that match a synonym of the field
MatchingColumns(field) ==
    {j \in 1..Len(df.columns) :
        header_matches(COLUMN_MAPPINGS[field], df.columns[j])}

FirstOf(S) == CHOOSE j \in S : \A m \in S : j <= m

\* the cleaned values under the first header matching the field, empty
\* strings when no header matches
CleanedColumn(field) ==
    LET M == MatchingColumns(field)
        j == IF M = {} THEN 0 ELSE FirstOf(M)
    IN  [i \in 1..Len(df.data) |->
            IF j = 0 THEN EmptyStr ELSE clean_value(str(df.data[i][j]))]

Cleaned(field, i) == CleanedColumn(field)[i]

C2_OneRowPerDocument ==
    Succeeded =>
        /\ \A i \in Rows :
            assembled[i]["cpf"] # EmptyStr =>
                Cardinality({k \in OutRows :
                    result.data[k]["cpf"] = assembled[i]["cpf"]}) = 1
        /\ Len(result.data) <= Len(df.data)

\* a non-empty cpf occurs in two assembled rows
C2_Witness ==
    /\ Succeeded
    /\ \E i, j \in Rows :
        /\ i # j
        /\ assembled[i]["cpf"] # EmptyStr
        /\ assembled[i]["cpf"] = assembled[j]["cpf"]

\* C3: clean_document returns 'F' exactly when the digits it returns are
\* 11, 'J' exactly when they are 14, and '' in every other case.
C3_TypeByDigitCount ==
    pc = "classified" =>
        /\ classified[2] = <<"F">> <=> Len(classified[1]) = 11
        /\ classified[2] = <<"J">> <=> Len(classified[1]) = 14
        /\ Len(classified[1]) \notin {11, 14} => classified[2] = EmptyStr

\* a formatted 14-digit document was classified
C3_Witness ==
    /\ pc = "classified"
    /\ Len(classified[1]) = 14
    /\ Len(doc) > 14

\* C4 as stated: the cpf of every output row has length 0, 11 or 14.
C4_DocumentLengthKnown ==
    Succeeded =>
        \A k \in OutRows : Len(result.data[k]["cpf"]) \in {0, 11, 14}

\* C4 amended: the cpf of every output row is the digits of the row's
\* document, whatever their number, and tipo_pessoa is '' when that number
\* is neither 11 nor 14.
C4_DigitsRetained ==
    Succeeded =>
        \A k \in OutRows :
            LET raw == df.data[kept[k]][FirstOf(MatchingColumns("cpf"))]
            IN  /\ \A c \in 1..Len(result.data[k]["cpf"]) :
                        result.data[k]["cpf"][c] \in Digit
                /\ result.data[k]["cpf"] = remove_non_digits(str(raw))
                /\ Len(result.data[k]["cpf"]) \notin {11, 14}
                        => result.data[k]["tipo_pessoa"] = EmptyStr

\* an output row carries a document of four digits
C4_Witness ==
    /\ Succeeded
    /\ \E k \in OutRows :
        /\ Len(result.data[k]["cpf"]) = 4
        /\ result.data[k]["tipo_pessoa"] = EmptyStr

\* C5 as stated: fantasia is empty unless the row is a company and the
\* trade name differs from razao_social.
C5_TradeNameOnlyForCompanies ==
    Succeeded =>
        \A k \in OutRows :
            result.data[k]["fantasia"] # EmptyStr =>
                /\ result.data[k]["tipo_pessoa"] = <<"J">>
                /\ result.data[k]["fantasia"] # result.data[k]["razao_social"]

\* C5 amended: fantasia is the cleaned trade name of the row, whatever
\* tipo_pessoa and razao_social are.
C5_TradeNamePassedThrough ==
    Succeeded =>
        LET trade_names == CleanedColumn("fantasia")
        IN  \A k \in OutRows :
                result.data[k]["fantasia"] = trade_names[kept[k]]

\* a company row came out with a trade name that repeats its razao_social
C5_Witness ==
    /\ Succeeded
    /\ \E k \in OutRows :
        /\ result.data[k]["tipo_pessoa"] = <<"J">>
        /\ result.data[k]["fantasia"] # EmptyStr
        /\ result.data[k]["fantasia"] = result.data[k]["razao_social"]

\* C6: with a first-name header, a last-name header and no combined-name
\* header, in either order, razao_social is trim(first + ' ' + last)
\* (rows with neither name are left to the default label).
C6_FirstAndLastName ==
    (Succeeded /\ ColumnOf(H_PrimeiroNome) # 0 /\ ColumnOf(H_Sobrenome) # 0) =>
        \A k \in OutRows :
            LET first_name ==
                    clean_value(str(df.data[kept[k]][ColumnOf(H_PrimeiroNome)]))
                last_name ==
                    clean_value(str(df.data[kept[k]][ColumnOf(H_Sobrenome)]))
                full == strip(first_name \o <<" ">> \o last_name)
            IN  full # EmptyStr => result.data[k]["razao_social"] = full

\* C7: razao_social of every output row is a non-empty string.
C7_NameNeverEmpty ==
    Succeeded =>
        \A k \in OutRows :
            /\ result.data[k]["razao_social"] # EmptyStr
            /\ strip(result.data[k]["razao_social"]) # EmptyStr

\* a row without any name came out with the default label
C7_Witness ==
    /\ Succeeded
    /\ \E k \in OutRows :
        /\ result.data[k]["razao_social"] = NAO_INFORMADO
        /\ Cleaned("razao_social", kept[k]) = EmptyStr
        /\ Cleaned("sobrenome", kept[k]) = EmptyStr
        /\ Cleaned("primeiro_nome", kept[k]) = EmptyStr

\* no header resolves to cpf, or every value under the one that does is
\* empty after cleaning
NoDocument ==
    \/ MatchingColumns("cpf") = {}
    \/ LET documents == CleanedColumn("cpf")
       IN  \A i \in 1..Len(df.data) : documents[i] = EmptyStr

\* C8: without a document column process_data reports an error and returns
\* no table, before classification, assembly and de-duplication, and no
\* table is offered for download.
C8_NoDocumentIsAnError ==
    (pc \notin {"main", "read"} /\ NoDocument) =>
        /\ pc \in {"map", "returned", "end"}
        /\ result.is_none
        /\ download.is_none
        /\ "tipo_pessoa" \notin DOMAIN mapped_data
        /\ assembled = << >>
        /\ output_df = << >>
        /\ kept = << >>
        /\ pc # "map" => errors # << >>

\* a table whose document column holds only empty values was refused
C8_Witness ==
    /\ pc = "end"
    /\ Len(df.data) > 0
    /\ MatchingColumns("cpf") # {}
    /\ NoDocument
    /\ errors = <<"Nenhuma coluna de documento (CPF/CNPJ) encontrada">>

\* C9: a row whose document has no digit gets cpf '' and tipo_pessoa '',
\* and all the rows with an empty cpf come out as exactly one row.
C9_EmptyDocumentsCollapse ==
    Succeeded =>
        /\ LET documents == CleanedColumn("cpf")
           IN  \A i \in Rows :
                (\A c \in 1..Len(documents[i]) : documents[i][c] \notin Digit)
                    => /\ assembled[i]["cpf"] = EmptyStr
                       /\ assembled[i]["tipo_pessoa"] = EmptyStr
        /\ (\E i \in Rows : assembled[i]["cpf"] = EmptyStr) =>
                Cardinality({k \in OutRows : result.data[k]["cpf"] = EmptyStr}) = 1

\* two rows without digits, one of them 'abc', were collapsed
C9_Witness ==
    /\ Succeeded
    /\ \E i, j \in Rows :
        /\ i # j
        /\ Cleaned("cpf", i) = <<"a","b","c">>
        /\ assembled[i]["cpf"] = EmptyStr
        /\ assembled[j]["cpf"] = EmptyStr
    /\ Cardinality({k \in OutRows : result.data[k]["cpf"] = EmptyStr}) = 1

\* mapped_data as map_source_columns returned it
JustMapped == DOMAIN mapped_data # {} /\ "tipo_pessoa" \notin DOMAIN mapped_data

\* C10: every field of COLUMN_MAPPINGS gets the cleaned values of the first
\* header, in header order, that contains one of its synonyms, or empty
\* strings when there is none, whatever the other fields were given.
C10_FirstMatchingHeaderPerField ==
    JustMapped =>
        /\ DOMAIN mapped_data = DOMAIN COLUMN_MAPPINGS
        /\ \A field \in DOMAIN COLUMN_MAPPINGS :
            LET M == MatchingColumns(field)
            IN  /\ Len(mapped_data[field]) = Len(df.data)
                /\ M = {} =>
                        \A i \in 1..Len(df.data) : mapped_data[field][i] = EmptyStr
                /\ M # {} =>
                        \A i \in 1..Len(df.data) :
                            mapped_data[field][i] = clean_value(str(df.data[i][FirstOf(M)]))

\* one header was selected for two fields
C10_Witness ==
    /\ JustMapped
    /\ \E f, g \in DOMAIN COLUMN_MAPPINGS :
        /\ f # g
        /\ MatchingColumns(f) # {}
        /\ MatchingColumns(g) # {}
        /\ FirstOf(MatchingColumns(f)) = FirstOf(MatchingColumns(g))
        /\ mapped_data[f] = mapped_data[g]
        /\ \E i \in 1..Len(df.data) : mapped_data[f][i] # EmptyStr

====
